---------------------------- MODULE Spec2Model ----------------------------
(***************************************************************************)
(* Model of the LangGraph greeting agent (src/src/index.ts).               *)
(*                                                                         *)
(* A JavaScript string is a sequence of UTF-16 code units, written here as *)
(* a sequence of numbers (65 is "A", 32 the space, 39 the apostrophe, 233  *)
(* the non-ASCII letter e-acute).  A JavaScript value is a string or       *)
(* undefined; an object of the GreetingState shape holds one value per     *)
(* field, a missing property reading as undefined.                         *)
(***************************************************************************)
EXTENDS Integers, Sequences, FiniteSets

\* Longest name given to a direct call of greetingNode.
MaxNameLen == 3

\* Number of invocations of one compiled graph that may be in flight.
MaxInvocations == 2

\* Number of graphs one process compiles.
MaxGraphs == 2

\* Code units names are built from: "A", space, apostrophe, e-acute.
Alphabet == {65, 32, 39, 233}

RECURSIVE SeqsUpTo(_)
SeqsUpTo(n) ==
    IF n = 0 THEN {<<>>}
    ELSE LET shorter == SeqsUpTo(n - 1)
         IN  shorter \cup {Append(s, c) : s \in {t \in shorter : Len(t) = n - 1}, c \in Alphabet}

Names == SeqsUpTo(MaxNameLen)

VARIABLES
    heap,       \* address -> record
    pc,         \* invocation -> "idle" or the node it has reached
    stateRef,   \* invocation -> address of its working state
    given,      \* invocation -> the record as it was when invoke was called
    received,   \* invocation -> the state greetingNode was called with
    path,       \* invocation -> the nodes reached, in order
    envUnset,   \* invocation -> whether no variable of EnvVars was set
    arg,        \* the state of a direct call of greetingNode
    ret,        \* what the direct call returned
    called,     \* whether the direct call has returned
    threw,      \* whether the direct call threw
    prior,      \* the direct call made before this one, if any
    isEntry,    \* whether index.ts is the entry point of the process
    procEnv,    \* the variables of EnvVars set when the process started
    mainPc,     \* where main is
    stdout,     \* the lines printed, in order
    exitCode,   \* the exit status, -1 while the process runs
    graphs,     \* how many graphs createGreetingGraph has compiled
    scriptEnv,  \* verification script: variable name -> its value
    argv,       \* the flags on the script's command line
    installed,  \* the packages that require() finds
    scriptPc,   \* where the script is
    allGood,    \* checkEnvVars: let allGood
    issues,     \* checkEnvVars: const issues
    printed,    \* the lines checkEnvVars has printed, in order
    calls,      \* the functions the script's main has called, in order
    files,      \* the names of the files the script has written
    status,     \* the status given to process.exit, -1 if not called
    earlier     \* the run of checkEnvVars made before this one, if any

-----------------------------------------------------------------------------
(* JavaScript values and objects of the GreetingState shape *)

Undefined == [t |-> "undefined", s |-> <<>>]

Str(chars) == [t |-> "string", s |-> chars]

\* GreetingState: the two fields of the state schema.
Fields == {"name", "greeting"}

\* An object with neither field.
EmptyObj == [name |-> Undefined, greeting |-> Undefined]

\* Object.keys: the fields the object has.
Keys(o) == {f \in Fields : o[f].t = "string"}

\* The text of "Hello, " and of "! Welcome!" in the template literal.
Hello == <<72, 101, 108, 108, 111, 44, 32>>

Welcome == <<33, 32, 87, 101, 108, 99, 111, 109, 101, 33>>

\* The text "undefined".
UndefinedText == <<117, 110, 100, 101, 102, 105, 110, 101, 100>>

\* ${...} in a template literal: a string is inserted as it is, undefined
\* is inserted as the text "undefined".
ToString(v) == IF v.t = "string" THEN v.s ELSE UndefinedText

RECURSIVE TrimStart(_)
TrimStart(s) == IF s # <<>> /\ Head(s) = 32 THEN TrimStart(Tail(s)) ELSE s

\* A greetingNode that trims the name before greeting.
greetingNodeTrim(state) ==
    [name |-> Undefined,
     greeting |-> Str(Hello \o TrimStart(ToString(state.name)) \o Welcome)]

\* A greetingNode that returns the whole state instead of the delta.
greetingNodeEcho(state) ==
    [name |-> state.name,
     greeting |-> Str(Hello \o ToString(state.name) \o Welcome)]

\* A greetingNode that keeps a greeting the state already has.
greetingNodeKeep(state) ==
    [name |-> Undefined,
     greeting |-> IF state.greeting.t = "string" /\ state.greeting.s # <<>>
                  THEN state.greeting
                  ELSE Str(Hello \o ToString(state.name) \o Welcome)]

\* A greetingNode that writes its message into the field name.
greetingNodeWrongField(state) ==
    [name |-> Str(Hello \o ToString(state.name) \o Welcome),
     greeting |-> Undefined]

\* greetingNode: reads state.name, returns the delta {greeting}.
greetingNode(state) ==
    LET name == state.name
        greetingMessage == Hello \o ToString(name) \o Welcome
    IN  [name |-> Undefined, greeting |-> Str(greetingMessage)]

\* A guard "if (!name) throw": it throws for a missing and for an empty name.
NodeThrowsOnEmpty(state) == ToString(state.name) \in {<<>>, UndefinedText}

\* Whether greetingNode(state) throws: reading a property of a record and
\* filling a template literal cannot throw, and the body has no throw.
NodeThrows(state) == FALSE

\* An argument whose greeting the node assigns before returning.
ArgAfterCallWrites(state) ==
    [state EXCEPT !.greeting = Str(Hello \o ToString(state.name) \o Welcome)]

\* The argument record after greetingNode(state) has returned: the body
\* assigns to no property of state.
ArgAfterCall(state) == state

-----------------------------------------------------------------------------
(* The graph built by createGreetingGraph *)

START == "__start__"

END == "__end__"

\* The edges with a shortcut from START to END added.
EdgesShortcut ==
    {<<START, "greetingNode">>, <<"greetingNode", END>>, <<START, END>>}

\* addEdge(START, "greetingNode") and addEdge("greetingNode", END).
Edges == {<<START, "greetingNode">>, <<"greetingNode", END>>}

\* Shallow field overwrite: a field the delta has replaces the field of o.
Merge(o, d) ==
    [name     |-> IF d.name.t = "string" THEN d.name ELSE o.name,
     greeting |-> IF d.greeting.t = "string" THEN d.greeting ELSE o.greeting]

\* A merge that keeps only the delta.
MergeReplace(o, d) == d

\* A merge in which a field the state already has is kept.
MergeKeepOld(o, d) ==
    [name     |-> IF o.name.t = "string" THEN o.name ELSE d.name,
     greeting |-> IF o.greeting.t = "string" THEN o.greeting ELSE d.greeting]

\* The update of the working state by a node's delta.
ApplyDelta(o, d) == Merge(o, d)

\* An initialisation that gives an absent greeting the default "".
MapInputDefault(input) ==
    [name     |-> input.name,
     greeting |-> IF input.greeting.t = "string" THEN input.greeting ELSE Str(<<>>)]

\* An initialisation on top of the working state the first invocation left.
MapInputSticky(input) == Merge(heap[MaxInvocations + 1], input)

\* The working state at the start of an invocation: the channels of the
\* schema, neither with a default, written with the fields the input has.
MapInput(input) == Merge(EmptyObj, input)

\* A returned record cut down to the field the caller supplied.
ReadOutputNameOnly(channels) == [name |-> channels.name, greeting |-> Undefined]

\* The record handed back to the caller: the fields the working state has.
ReadOutput(channels) == Merge(EmptyObj, channels)

\* The environment variables of tracing and of the model providers.
EnvVars ==
    {"LANGCHAIN_TRACING_V2", "LANGCHAIN_API_KEY", "LANGCHAIN_PROJECT",
     "LANGCHAIN_ENDPOINT", "OPENAI_API_KEY", "ANTHROPIC_API_KEY"}

\* A node call that produces nothing without a model provider's key.
CallNodeNeedsKey(state, env) ==
    IF "OPENAI_API_KEY" \in env \/ "ANTHROPIC_API_KEY" \in env
    THEN greetingNode(state)
    ELSE EmptyObj

\* The call of the registered node under the process environment env,
\* which the node does not read.
CallNode(state, env) == greetingNode(state)

Invs == 1 .. MaxInvocations

\* Heap addresses: the caller's record, the working state and the returned
\* record of invocation i.
InputAddr(i) == i

StateAddr(i) == MaxInvocations + i

\* A returned record that is the caller's own record.
ResultAddrAliased(i) == InputAddr(i)

ResultAddr(i) == 2 * MaxInvocations + i

Addrs == 1 .. 3 * MaxInvocations

\* A working state that is the caller's own record.
WorkingCopyAliased(i) == InputAddr(i)

\* One working state shared by every invocation of the compiled graph.
WorkingCopyShared(i) == StateAddr(1)

\* Where invocation i keeps its working state: a record of its own.
WorkingCopy(i) == StateAddr(i)

\* The names and records handed to invoke: the empty name and "A e-acute"
\* with a space inside; a record may lack either field.
InvokeNames == {<<>>, <<65, 32, 233>>}

InvokeInputs ==
    {[name |-> n, greeting |-> g] :
        n \in {Undefined} \cup {Str(s) : s \in InvokeNames},
        g \in {Undefined, Str(<<>>), Str(<<65>>)}}

\* The states handed to a direct call of greetingNode.
NodeArgs ==
    {[name |-> n, greeting |-> g] :
        n \in {Undefined} \cup {Str(s) : s \in Names},
        g \in {Undefined, Str(<<>>), Str(<<65>>)}}

vars ==
    <<heap, pc, stateRef, given, received, path, envUnset,
      arg, ret, called, threw, prior,
      isEntry, procEnv, mainPc, stdout, exitCode, graphs,
      scriptEnv, argv, installed, scriptPc, allGood, issues, printed,
      calls, files, status, earlier>>

scriptVars ==
    <<scriptEnv, argv, installed, scriptPc, allGood, issues, printed,
      calls, files, status, earlier>>

directVars == <<arg, ret, called, threw, prior>>

mainVars == <<isEntry, procEnv, mainPc, stdout, exitCode, graphs>>

\* No earlier direct call.
NoPrior == [made |-> FALSE, arg |-> EmptyObj, ret |-> EmptyObj]

runnerVars ==
    <<heap, pc, stateRef, given, received, path, envUnset>>

\* The variables the verification script reads: three required, one
\* optional.
TRACING == "LANGCHAIN_TRACING_V2"

API_KEY == "LANGCHAIN_API_KEY"

PROJECT == "LANGCHAIN_PROJECT"

ENDPOINT == "LANGCHAIN_ENDPOINT"

ScriptVarNames == {TRACING, API_KEY, PROJECT, ENDPOINT}

\* No earlier run of checkEnvVars.
NoEarlier ==
    [made |-> FALSE, env |-> [v \in ScriptVarNames |-> Undefined],
     allGood |-> TRUE, issues |-> <<>>]

\* The verification script is not run.
InitNoScript ==
    /\ scriptEnv = [v \in ScriptVarNames |-> Undefined]
    /\ argv = {}
    /\ installed = {}
    /\ scriptPc = <<"none">>
    /\ allGood = TRUE
    /\ issues = <<>>
    /\ printed = <<>>
    /\ calls = <<>>
    /\ files = {}
    /\ status = -1
    /\ earlier = NoEarlier

InitRunner ==
    /\ heap = [a \in Addrs |-> EmptyObj]
    /\ pc = [i \in Invs |-> "idle"]
    /\ stateRef = [i \in Invs |-> 0]
    /\ given = [i \in Invs |-> EmptyObj]
    /\ received = [i \in Invs |-> EmptyObj]
    /\ path = [i \in Invs |-> <<>>]
    /\ envUnset = [i \in Invs |-> FALSE]

\* No direct call of greetingNode is made.
InitDirect ==
    /\ arg = EmptyObj
    /\ ret = EmptyObj
    /\ called = FALSE
    /\ threw = FALSE
    /\ prior = NoPrior

\* index.ts was loaded as a module by a process with no variable set, and
\* the caller has compiled one graph.
InitImported ==
    /\ isEntry = FALSE
    /\ procEnv = {}
    /\ mainPc = <<"load", 0>>
    /\ stdout = <<>>
    /\ exitCode = -1
    /\ graphs = 1

Init ==
    /\ InitRunner
    /\ InitNoScript
    /\ InitDirect
    /\ InitImported

\* app.invoke(input): the caller's record is at InputAddr(i); the working
\* state is initialised from it and the run is at START.
InvokeWith(i, input) ==
    /\ pc[i] = "idle"
    /\ LET h1 == [heap EXCEPT ![InputAddr(i)] = input]
           w  == WorkingCopy(i)
       IN  /\ heap' = [h1 EXCEPT ![w] = MapInput(h1[InputAddr(i)])]
           /\ stateRef' = [stateRef EXCEPT ![i] = w]
           /\ given' = [given EXCEPT ![i] = input]
    /\ pc' = [pc EXCEPT ![i] = START]
    /\ path' = [path EXCEPT ![i] = <<START>>]
    /\ UNCHANGED <<received, envUnset, directVars>>

Invoke(i) ==
    /\ \E input \in InvokeInputs : InvokeWith(i, input)
    /\ UNCHANGED <<mainVars, scriptVars>>

\* The edge into greetingNode: the node is called with the working state
\* and its delta is merged into the working state.
\* A node that throws rejects the invocation: it is "failed" for good.
RunNodeIn(i, env) ==
    /\ pc[i] # "idle"
    /\ <<pc[i], "greetingNode">> \in Edges
    /\ LET state == heap[stateRef[i]]
           delta == CallNode(state, env)
       IN  /\ heap' = IF NodeThrows(state) THEN heap
                      ELSE [heap EXCEPT ![stateRef[i]] = ApplyDelta(state, delta)]
           /\ pc' = [pc EXCEPT ![i] =
                        IF NodeThrows(state) THEN "failed" ELSE "greetingNode"]
           /\ received' = [received EXCEPT ![i] = state]
           /\ envUnset' = [envUnset EXCEPT ![i] = (env = {})]
    /\ path' = [path EXCEPT ![i] = Append(@, "greetingNode")]
    /\ UNCHANGED <<stateRef, given, directVars>>

\* The node call under whatever variables are set at that moment.
RunNode(i) ==
    /\ \E env \in SUBSET EnvVars : RunNodeIn(i, env)
    /\ UNCHANGED <<mainVars, scriptVars>>

\* The edge into END: the working state is read into the record returned
\* to the caller.
Finish(i) ==
    /\ pc[i] # "idle"
    /\ <<pc[i], END>> \in Edges
    /\ heap' = [heap EXCEPT ![ResultAddr(i)] = ReadOutput(heap[stateRef[i]])]
    /\ pc' = [pc EXCEPT ![i] = END]
    /\ path' = [path EXCEPT ![i] = Append(@, END)]
    /\ UNCHANGED <<stateRef, given, received, envUnset, directVars, mainVars, scriptVars>>

Next ==
    \/ \E i \in Invs : Invoke(i)
    \/ \E i \in Invs : RunNode(i)
    \/ \E i \in Invs : Finish(i)

Spec == Init /\ [][Next]_vars

\* The node call in a process whose variables are those set at its start.
RunNodeProc(i) ==
    /\ RunNodeIn(i, procEnv)
    /\ UNCHANGED <<mainVars, scriptVars>>

NextProc ==
    \/ \E i \in Invs : Invoke(i)
    \/ \E i \in Invs : RunNodeProc(i)
    \/ \E i \in Invs : Finish(i)

\* After invocation i has returned, its caller assigns through its two
\* references: an apostrophe to the greeting of the record it passed in,
\* two apostrophes to the name of the record it got back.
CallerWrites(i) ==
    /\ pc[i] = END
    /\ heap[InputAddr(i)].greeting # Str(<<39>>)
    /\ LET h1 == [heap EXCEPT ![InputAddr(i)].greeting = Str(<<39>>)]
       IN  heap' = [h1 EXCEPT ![ResultAddr(i)].name = Str(<<39, 39>>)]
    /\ UNCHANGED <<pc, stateRef, given, received, path, envUnset,
                   directVars, mainVars, scriptVars>>

NextAlias ==
    \/ NextProc
    \/ \E i \in Invs : CallerWrites(i)

SpecAlias == Init /\ [][NextAlias]_vars

\* The steps of a started invocation are promise continuations with no
\* I/O to wait for: the event loop runs each one that is pending.
SpecLive ==
    /\ Init
    /\ [][NextProc]_vars
    /\ \A i \in Invs : WF_vars(RunNodeProc(i)) /\ WF_vars(Finish(i))

\* Invocations made one after the other, each awaited before the next
\* ("for (const name of names) { await app.invoke({ name }) }").
InvokeSeq(i) ==
    /\ \A j \in Invs : j < i => pc[j] = END
    /\ \A j \in Invs : j > i => pc[j] = "idle"
    /\ Invoke(i)

NextSeq ==
    \/ \E i \in Invs : InvokeSeq(i)
    \/ \E i \in Invs : RunNode(i)
    \/ \E i \in Invs : Finish(i)

SpecSeq == Init /\ [][NextSeq]_vars

\* A direct call of greetingNode, as the unit tests make it.
InitNode ==
    /\ InitRunner
    /\ InitNoScript
    /\ InitImported
    /\ arg \in NodeArgs
    /\ ret = EmptyObj
    /\ called = FALSE
    /\ threw = FALSE
    /\ prior = NoPrior

CallGreetingNode ==
    /\ ~called
    /\ threw' = NodeThrows(arg)
    /\ ret' = IF NodeThrows(arg) THEN EmptyObj ELSE greetingNode(arg)
    /\ arg' = ArgAfterCall(arg)
    /\ called' = TRUE
    /\ UNCHANGED <<prior, runnerVars, mainVars, scriptVars>>

NextNode == CallGreetingNode

SpecNode == InitNode /\ [][NextNode]_vars

-----------------------------------------------------------------------------
(* main of index.ts, run when the file is the entry point of the process *)

\* The names of the two example invocations: "Alice", then "Bob".
MainNames == <<<<65, 108, 105, 99, 101>>, <<66, 111, 98>>>>

MainRuns == DOMAIN MainNames

\* The width of the rule printed under the banner.
RuleWidth == 40

\* "LangGraph Greeting Agent (No LLM)".
Banner ==
    <<76, 97, 110, 103, 71, 114, 97, 112, 104, 32, 71, 114, 101,
    101, 116, 105, 110, 103, 32, 65, 103, 101, 110, 116, 32, 40,
    78, 111, 32, 76, 76, 77, 41>>

\* "=".repeat(40).
Rule == [k \in 1 .. RuleWidth |-> 61]

\* "Input: " and "Output: ".
InputLabel == <<73, 110, 112, 117, 116, 58, 32>>

OutputLabel == <<79, 117, 116, 112, 117, 116, 58, 32>>

\* A main that goes on without waiting for the invocation.
NotAwaited(k) == TRUE

\* "await app.invoke(inputState)": main goes on when invocation k has
\* returned its record.
Awaited(k) == pc[k] = END

\* The process loaded with index.ts as a module or as the entry point,
\* with any of the variables set by the shell or by dotenv.
InitMain ==
    /\ InitRunner
    /\ InitNoScript
    /\ InitDirect
    /\ isEntry \in BOOLEAN
    /\ procEnv \in SUBSET EnvVars
    /\ mainPc = <<"load", 0>>
    /\ stdout = <<>>
    /\ exitCode = -1
    /\ graphs = 0

\* A file that runs main whenever it is loaded.
RunsMainOnLoad == TRUE

\* require.main === module.
RequireMainIsModule == isEntry

\* createGreetingGraph(): one more compiled graph; nothing is printed and
\* nothing is invoked.
createGreetingGraph ==
    /\ graphs < MaxGraphs
    /\ graphs' = graphs + 1
    /\ UNCHANGED <<runnerVars, directVars, scriptVars, isEntry, procEnv, stdout, exitCode>>

\* The file is the entry point: main is called and builds the graph.
MainCreate ==
    /\ mainPc = <<"load", 0>>
    /\ RequireMainIsModule
    /\ createGreetingGraph
    /\ mainPc' = <<"start", 0>>

\* main prints the banner and the rule.
MainStart ==
    /\ mainPc = <<"start", 0>>
    /\ stdout' = stdout \o <<Banner, Rule>>
    /\ mainPc' = <<"call", 1>>
    /\ UNCHANGED <<runnerVars, directVars, scriptVars, isEntry, procEnv, exitCode, graphs>>

\* inputState = { name: ... }; app.invoke(inputState).
MainInvoke(k) ==
    /\ mainPc = <<"call", k>>
    /\ InvokeWith(k, [name |-> Str(MainNames[k]), greeting |-> Undefined])
    /\ mainPc' = <<"await", k>>
    /\ UNCHANGED <<scriptVars, isEntry, procEnv, stdout, exitCode, graphs>>

\* After the await: the Input and Output lines, and an empty line after
\* the first example.
MainResume(k) ==
    /\ mainPc = <<"await", k>>
    /\ Awaited(k)
    /\ stdout' = stdout
                    \o <<InputLabel \o ToString(heap[InputAddr(k)].name),
                         OutputLabel \o ToString(heap[ResultAddr(k)].greeting)>>
                    \o (IF k < Len(MainNames) THEN <<<<>>>> ELSE <<>>)
    /\ mainPc' = IF k < Len(MainNames) THEN <<"call", k + 1>>
                 ELSE <<"returned", 0>>
    /\ UNCHANGED <<runnerVars, directVars, scriptVars, isEntry, procEnv, exitCode, graphs>>

\* main has returned and nothing is pending: the process ends with status 0.
MainExit ==
    /\ mainPc = <<"returned", 0>>
    /\ exitCode' = 0
    /\ mainPc' = <<"exited", 0>>
    /\ UNCHANGED <<runnerVars, directVars, scriptVars, isEntry, procEnv, stdout, graphs>>

NextMain ==
    \/ MainCreate
    \/ MainStart
    \/ \E k \in MainRuns : MainInvoke(k)
    \/ \E i \in Invs : RunNodeProc(i)
    \/ \E i \in Invs : Finish(i)
    \/ \E k \in MainRuns : MainResume(k)
    \/ MainExit

SpecMain == InitMain /\ [][NextMain]_vars

\* The file is loaded by another module: the import returns its exports
\* and main is not called.
ImportModule ==
    /\ mainPc = <<"load", 0>>
    /\ ~RequireMainIsModule
    /\ mainPc' = <<"imported", 0>>
    /\ UNCHANGED <<runnerVars, directVars, scriptVars, isEntry, procEnv, stdout, exitCode,
                   graphs>>

\* The importing module calls createGreetingGraph().
TestCreate ==
    /\ mainPc = <<"imported", 0>>
    /\ createGreetingGraph
    /\ UNCHANGED mainPc

\* The importing module invokes a graph it has compiled.
TestInvoke(i) ==
    /\ mainPc = <<"imported", 0>>
    /\ graphs > 0
    /\ Invoke(i)

\* The process with index.ts as its entry point or as a module imported
\* by the tests.
InitLoad ==
    /\ InitRunner
    /\ InitNoScript
    /\ InitDirect
    /\ isEntry \in BOOLEAN
    /\ procEnv \in {{}, EnvVars}
    /\ mainPc = <<"load", 0>>
    /\ stdout = <<>>
    /\ exitCode = -1
    /\ graphs = 0

NextLoad ==
    \/ MainCreate
    \/ MainStart
    \/ \E k \in MainRuns : MainInvoke(k)
    \/ \E i \in Invs : RunNodeProc(i)
    \/ \E i \in Invs : Finish(i)
    \/ \E k \in MainRuns : MainResume(k)
    \/ MainExit
    \/ ImportModule
    \/ TestCreate
    \/ \E i \in Invs : TestInvoke(i)

SpecLoad == InitLoad /\ [][NextLoad]_vars

-----------------------------------------------------------------------------
\* A second direct call, after the first has returned, with a state of the
\* same name or of one of the sample names and with any greeting.
CallAgain ==
    /\ called
    /\ ~prior.made
    /\ prior' = [made |-> TRUE, arg |-> arg, ret |-> ret]
    /\ arg' \in {a \in NodeArgs :
                    \/ a.name = arg.name
                    \/ a.name \in {Undefined} \cup {Str(s) : s \in InvokeNames}}
    /\ ret' = EmptyObj
    /\ called' = FALSE
    /\ threw' = FALSE
    /\ UNCHANGED <<runnerVars, mainVars, scriptVars>>

NextNodeTwice == CallGreetingNode \/ CallAgain

SpecNodeTwice == InitNode /\ [][NextNodeTwice]_vars

\* Invocations of the graph next to a direct call greetingNode({name: s,
\* greeting: ""}), as the test file makes both.
InitBoth ==
    /\ InitRunner
    /\ InitNoScript
    /\ InitImported
    /\ arg \in {[name |-> Str(s), greeting |-> Str(<<>>)] : s \in InvokeNames}
    /\ ret = EmptyObj
    /\ called = FALSE
    /\ threw = FALSE
    /\ prior = NoPrior

NextBoth ==
    \/ NextProc
    \/ CallGreetingNode

SpecBoth == InitBoth /\ [][NextBoth]_vars

-----------------------------------------------------------------------------
(* The LangSmith verification script: checkEnvVars *)

\* The width of the rules the script prints.
ScriptRuleWidth == 70

\* The number of characters of an API key that are shown.
MaskLen == 15

\* The length under which an API key is reported as too short.
MinKeyLen == 20

\* c.repeat(n).
Repeat(c, n) == [k \in 1 .. n |-> c]

\* "=".repeat(70) and "-".repeat(70).
DoubleRule == Repeat(61, ScriptRuleWidth)

SingleRule == Repeat(45, ScriptRuleWidth)

\* "LangSmith Configuration Verification"
TitleLine ==
    <<76, 97, 110, 103, 83, 109, 105, 116, 104, 32, 67, 111, 110, 102,
    105, 103, 117, 114, 97, 116, 105, 111, 110, 32, 86, 101, 114, 105,
    102, 105, 99, 97, 116, 105, 111, 110>>

\* "Required Environment Variables:"
RequiredHeader ==
    <<82, 101, 113, 117, 105, 114, 101, 100, 32, 69, 110, 118, 105, 114,
    111, 110, 109, 101, 110, 116, 32, 86, 97, 114, 105, 97, 98, 108, 101,
    115, 58>>

\* "Optional Environment Variables:"
OptionalHeader ==
    <<79, 112, 116, 105, 111, 110, 97, 108, 32, 69, 110, 118, 105, 114,
    111, 110, 109, 101, 110, 116, 32, 86, 97, 114, 105, 97, 98, 108, 101,
    115, 58>>

\* "(check mark) "
CheckMark ==
    <<10003, 32>>

\* "(ballot x) "
CrossMark ==
    <<10007, 32>>

\* "  Value: "
ValueLabel ==
    <<32, 32, 86, 97, 108, 117, 101, 58, 32>>

\* "  Description: "
DescriptionLabel ==
    <<32, 32, 68, 101, 115, 99, 114, 105, 112, 116, 105, 111, 110, 58,
    32>>

\* "  Status: NOT SET"
StatusNotSet ==
    <<32, 32, 83, 116, 97, 116, 117, 115, 58, 32, 78, 79, 84, 32, 83, 69,
    84>>

\* "  (warning sign)  WARNING: Should be 'true', got '"
TracingWarning ==
    <<32, 32, 9888, 65039, 32, 32, 87, 65, 82, 78, 73, 78, 71, 58, 32, 83,
    104, 111, 117, 108, 100, 32, 98, 101, 32, 39, 116, 114, 117, 101, 39,
    44, 32, 103, 111, 116, 32, 39>>

\* "'"
Quote ==
    <<39>>

\* " should be 'true'"
ShouldBeTrue ==
    <<32, 115, 104, 111, 117, 108, 100, 32, 98, 101, 32, 39, 116, 114,
    117, 101, 39>>

\* "  (warning sign)  WARNING: API key format looks incorrect"
FormatWarning ==
    <<32, 32, 9888, 65039, 32, 32, 87, 65, 82, 78, 73, 78, 71, 58, 32, 65,
    80, 73, 32, 107, 101, 121, 32, 102, 111, 114, 109, 97, 116, 32, 108,
    111, 111, 107, 115, 32, 105, 110, 99, 111, 114, 114, 101, 99, 116>>

\* "     Expected to start with 'lsv2_pt_' or 'ls__'"
FormatExpected ==
    <<32, 32, 32, 32, 32, 69, 120, 112, 101, 99, 116, 101, 100, 32, 116,
    111, 32, 115, 116, 97, 114, 116, 32, 119, 105, 116, 104, 32, 39, 108,
    115, 118, 50, 95, 112, 116, 95, 39, 32, 111, 114, 32, 39, 108, 115,
    95, 95, 39>>

\* "API key format may be incorrect"
FormatIssue ==
    <<65, 80, 73, 32, 107, 101, 121, 32, 102, 111, 114, 109, 97, 116, 32,
    109, 97, 121, 32, 98, 101, 32, 105, 110, 99, 111, 114, 114, 101, 99,
    116>>

\* "  (warning sign)  WARNING: API key seems too short"
ShortWarning ==
    <<32, 32, 9888, 65039, 32, 32, 87, 65, 82, 78, 73, 78, 71, 58, 32, 65,
    80, 73, 32, 107, 101, 121, 32, 115, 101, 101, 109, 115, 32, 116, 111,
    111, 32, 115, 104, 111, 114, 116>>

\* "API key seems too short"
ShortIssue ==
    <<65, 80, 73, 32, 107, 101, 121, 32, 115, 101, 101, 109, 115, 32, 116,
    111, 111, 32, 115, 104, 111, 114, 116>>

\* " is not set"
IsNotSet ==
    <<32, 105, 115, 32, 110, 111, 116, 32, 115, 101, 116>>

\* ": "
ColonSpace ==
    <<58, 32>>

\* "  "
TwoSpaces ==
    <<32, 32>>

\* ": Using default"
UsingDefault ==
    <<58, 32, 85, 115, 105, 110, 103, 32, 100, 101, 102, 97, 117, 108,
    116>>

\* "true"
TrueText ==
    <<116, 114, 117, 101>>

\* "API_KEY"
ApiKeyText ==
    <<65, 80, 73, 95, 75, 69, 89>>

\* "lsv2_pt_"
PrefixPt ==
    <<108, 115, 118, 50, 95, 112, 116, 95>>

\* "ls__"
PrefixLs ==
    <<108, 115, 95, 95>>

\* "..."
Ellipsis ==
    <<46, 46, 46>>

\* The name of a variable, as text.
VarText(v) ==
    CASE v = TRACING ->
            <<76, 65, 78, 71, 67, 72, 65, 73, 78, 95, 84, 82, 65, 67, 73,
            78, 71, 95, 86, 50>>
      [] v = API_KEY ->
            <<76, 65, 78, 71, 67, 72, 65, 73, 78, 95, 65, 80, 73, 95, 75,
            69, 89>>
      [] v = PROJECT ->
            <<76, 65, 78, 71, 67, 72, 65, 73, 78, 95, 80, 82, 79, 74, 69,
            67, 84>>
      [] v = ENDPOINT ->
            <<76, 65, 78, 71, 67, 72, 65, 73, 78, 95, 69, 78, 68, 80, 79,
            73, 78, 84>>

\* requiredVars and optionalVars: the description of each variable.
Description(v) ==
    CASE v = TRACING ->
            <<83, 104, 111, 117, 108, 100, 32, 98, 101, 32, 39, 116, 114,
            117, 101, 39>>
      [] v = API_KEY ->
            <<89, 111, 117, 114, 32, 76, 97, 110, 103, 83, 109, 105, 116,
            104, 32, 65, 80, 73, 32, 107, 101, 121, 32, 40, 115, 116, 97,
            114, 116, 115, 32, 119, 105, 116, 104, 32, 108, 115, 118, 50,
            95, 112, 116, 95, 32, 111, 114, 32, 108, 115, 95, 95, 41>>
      [] v = PROJECT ->
            <<89, 111, 117, 114, 32, 112, 114, 111, 106, 101, 99, 116, 32,
            110, 97, 109, 101, 32, 40, 101, 46, 103, 46, 44, 32, 39, 108,
            97, 110, 103, 103, 114, 97, 112, 104, 45, 103, 114, 101, 101,
            116, 105, 110, 103, 45, 97, 103, 101, 110, 116, 45, 116, 121,
            112, 101, 115, 99, 114, 105, 112, 116, 39, 41>>
      [] v = ENDPOINT ->
            <<76, 97, 110, 103, 83, 109, 105, 116, 104, 32, 65, 80, 73,
            32, 101, 110, 100, 112, 111, 105, 110, 116, 32, 40, 100, 101,
            102, 97, 117, 108, 116, 58, 32, 104, 116, 116, 112, 115, 58,
            47, 47, 97, 112, 105, 46, 115, 109, 105, 116, 104, 46, 108,
            97, 110, 103, 99, 104, 97, 105, 110, 46, 99, 111, 109, 41>>

\* s.startsWith(p).
StartsWith(s, p) == Len(s) >= Len(p) /\ SubSeq(s, 1, Len(p)) = p

\* s.includes(p).
Includes(s, p) ==
    \E k \in 0 .. Len(s) - Len(p) : SubSeq(s, k + 1, k + Len(p)) = p

\* s.substring(0, n).
Substring(s, n) == SubSeq(s, 1, IF n < Len(s) THEN n ELSE Len(s))

\* s.toLowerCase(), for Latin-1 text: the capital letters A to Z and the
\* accented capitals move up by 32, every other code unit stays.
ToLowerCase(s) ==
    [k \in 1 .. Len(s) |->
        IF s[k] \in (65 .. 90) \cup ((192 .. 222) \ {215})
        THEN s[k] + 32 ELSE s[k]]

\* A test that takes every string, the empty one too, as set.
IsDefined(v) == v.t = "string"

\* if (value): undefined and the empty string are falsy.
Truthy(v) == v.t = "string" /\ v.s # <<>>

\* A display that shows every value in full.
DisplayInFull(v, value) == value

\* displayValue: an API key longer than 15 characters is cut to its first
\* 15 followed by "...".
DisplayValue(v, value) ==
    IF Includes(VarText(v), ApiKeyText) /\ Len(value) > MaskLen
    THEN Substring(value, MaskLen) \o Ellipsis
    ELSE value

\* Object.entries(requiredVars) with the endpoint among them.
RequiredWithEndpoint == <<TRACING, API_KEY, PROJECT, ENDPOINT>>

\* Object.entries(requiredVars), in insertion order.
RequiredVars == <<TRACING, API_KEY, PROJECT>>

\* Object.entries(optionalVars).
OptionalVars == <<ENDPOINT>>

\* The reasons an issue is pushed for.
Reasons == {"tracing", "format", "short", "unset"}

\* The text pushed to issues for variable v and reason w.
IssueText(v, w) ==
    CASE w = "tracing" -> VarText(v) \o ShouldBeTrue
      [] w = "format" -> FormatIssue
      [] w = "short" -> ShortIssue
      [] w = "unset" -> VarText(v) \o IsNotSet

\* An assignment that is missing after the "too short" issue.
AfterIssueForgetsShort(w, good) == IF w = "short" THEN good ELSE FALSE

\* allGood = false, after the push for reason w.
AfterIssue(w, good) == FALSE

\* The lines printed for the optional variables.
RECURSIVE OptionalLines(_, _)
OptionalLines(env, k) ==
    IF k > Len(OptionalVars) THEN <<>>
    ELSE LET v == OptionalVars[k]
             value == env[v]
         IN  (IF Truthy(value)
              THEN <<CheckMark \o VarText(v) \o ColonSpace \o value.s>>
              ELSE <<TwoSpaces \o VarText(v) \o UsingDefault,
                     DescriptionLabel \o Description(v)>>)
             \o <<<<>>>>
             \o OptionalLines(env, k + 1)

\* checkEnvVars is entered: the heading, let allGood = true, const issues
\* = [], the heading of the required variables.
CheckBegin ==
    /\ scriptPc = <<"checkEnvVars">>
    /\ printed' = printed \o <<DoubleRule, TitleLine, DoubleRule, <<>>,
                               RequiredHeader, SingleRule>>
    /\ allGood' = TRUE
    /\ issues' = <<>>
    /\ scriptPc' = <<"test", 1>>
    /\ UNCHANGED <<scriptEnv, argv, installed, calls, files, status, earlier>>
    /\ UNCHANGED <<runnerVars, directVars, mainVars>>

\* if (value): the three lines of a variable that is set, or the three
\* lines of one that is not.
TestVar(k) ==
    /\ scriptPc = <<"test", k>>
    /\ LET v == RequiredVars[k]
           value == scriptEnv[v]
       IN  IF Truthy(value)
           THEN /\ printed' = printed \o
                      <<CheckMark \o VarText(v),
                        ValueLabel \o DisplayValue(v, value.s),
                        DescriptionLabel \o Description(v)>>
                /\ scriptPc' = <<"tracing", k>>
           ELSE /\ printed' = printed \o
                      <<CrossMark \o VarText(v),
                        StatusNotSet,
                        DescriptionLabel \o Description(v)>>
                /\ scriptPc' = <<"push", k, "unset">>
    /\ UNCHANGED <<scriptEnv, argv, installed, allGood, issues, calls, files,
                   status, earlier>>
    /\ UNCHANGED <<runnerVars, directVars, mainVars>>

\* varName === "LANGCHAIN_TRACING_V2" && value.toLowerCase() !== "true".
CheckTracing(k) ==
    /\ scriptPc = <<"tracing", k>>
    /\ LET v == RequiredVars[k]
           value == scriptEnv[v].s
       IN  IF v = TRACING /\ ToLowerCase(value) # TrueText
           THEN /\ printed' = Append(printed, TracingWarning \o value \o Quote)
                /\ scriptPc' = <<"push", k, "tracing">>
           ELSE /\ printed' = printed
                /\ scriptPc' = <<"format", k>>
    /\ UNCHANGED <<scriptEnv, argv, installed, allGood, issues, calls, files,
                   status, earlier>>
    /\ UNCHANGED <<runnerVars, directVars, mainVars>>

\* varName === "LANGCHAIN_API_KEY", and the test of the two prefixes.
CheckFormat(k) ==
    /\ scriptPc = <<"format", k>>
    /\ LET v == RequiredVars[k]
           value == scriptEnv[v].s
       IN  IF v # API_KEY
           THEN /\ printed' = printed
                /\ scriptPc' = <<"end", k>>
           ELSE IF ~StartsWith(value, PrefixPt) /\ ~StartsWith(value, PrefixLs)
                THEN /\ printed' = printed \o <<FormatWarning, FormatExpected>>
                     /\ scriptPc' = <<"push", k, "format">>
                ELSE /\ printed' = printed
                     /\ scriptPc' = <<"length", k>>
    /\ UNCHANGED <<scriptEnv, argv, installed, allGood, issues, calls, files,
                   status, earlier>>
    /\ UNCHANGED <<runnerVars, directVars, mainVars>>

\* value.length < 20.
CheckLength(k) ==
    /\ scriptPc = <<"length", k>>
    /\ LET value == scriptEnv[RequiredVars[k]].s
       IN  IF Len(value) < MinKeyLen
           THEN /\ printed' = Append(printed, ShortWarning)
                /\ scriptPc' = <<"push", k, "short">>
           ELSE /\ printed' = printed
                /\ scriptPc' = <<"end", k>>
    /\ UNCHANGED <<scriptEnv, argv, installed, allGood, issues, calls, files,
                   status, earlier>>
    /\ UNCHANGED <<runnerVars, directVars, mainVars>>

\* issues.push(...).
PushIssue(k, w) ==
    /\ scriptPc = <<"push", k, w>>
    /\ issues' = Append(issues, IssueText(RequiredVars[k], w))
    /\ scriptPc' = <<"set", k, w>>
    /\ UNCHANGED <<scriptEnv, argv, installed, allGood, printed, calls, files,
                   status, earlier>>
    /\ UNCHANGED <<runnerVars, directVars, mainVars>>

\* allGood = false, the statement after each push.
SetNotGood(k, w) ==
    /\ scriptPc = <<"set", k, w>>
    /\ allGood' = AfterIssue(w, allGood)
    /\ scriptPc' = CASE w = "tracing" -> <<"format", k>>
                     [] w = "format" -> <<"length", k>>
                     [] OTHER -> <<"end", k>>
    /\ UNCHANGED <<scriptEnv, argv, installed, issues, printed, calls, files,
                   status, earlier>>
    /\ UNCHANGED <<runnerVars, directVars, mainVars>>

\* console.log() at the end of an iteration, then the next variable.
EndIteration(k) ==
    /\ scriptPc = <<"end", k>>
    /\ printed' = Append(printed, <<>>)
    /\ scriptPc' = IF k < Len(RequiredVars) THEN <<"test", k + 1>>
                   ELSE <<"optional">>
    /\ UNCHANGED <<scriptEnv, argv, installed, allGood, issues, calls, files,
                   status, earlier>>
    /\ UNCHANGED <<runnerVars, directVars, mainVars>>

\* The heading and the loop of the optional variables.
CheckOptional ==
    /\ scriptPc = <<"optional">>
    /\ printed' = printed \o <<OptionalHeader, SingleRule>>
                          \o OptionalLines(scriptEnv, 1)
    /\ scriptPc' = <<"return">>
    /\ UNCHANGED <<scriptEnv, argv, installed, allGood, issues, calls, files,
                   status, earlier>>
    /\ UNCHANGED <<runnerVars, directVars, mainVars>>

\* return { allGood, issues }: to main when main made the call.
CheckReturn ==
    /\ scriptPc = <<"return">>
    /\ scriptPc' = IF calls = <<>> THEN <<"returned">>
                   ELSE <<"testLangSmithImport">>
    /\ UNCHANGED <<scriptEnv, argv, installed, allGood, issues, printed, calls,
                   files, status, earlier>>
    /\ UNCHANGED <<runnerVars, directVars, mainVars>>

\* The steps of checkEnvVars.
CheckStep ==
    \/ CheckBegin
    \/ \E k \in DOMAIN RequiredVars : TestVar(k)
    \/ \E k \in DOMAIN RequiredVars : CheckTracing(k)
    \/ \E k \in DOMAIN RequiredVars : CheckFormat(k)
    \/ \E k \in DOMAIN RequiredVars : CheckLength(k)
    \/ \E k \in DOMAIN RequiredVars, w \in Reasons : PushIssue(k, w)
    \/ \E k \in DOMAIN RequiredVars, w \in Reasons : SetNotGood(k, w)
    \/ \E k \in DOMAIN RequiredVars : EndIteration(k)
    \/ CheckOptional
    \/ CheckReturn

\* Longest API key of the sample.
MaxKeyLen == 21

\* Values of LANGCHAIN_TRACING_V2: unset, "", "true", "TrUe", "false",
\* "true " with a space after it.
TracingValues ==
    {Undefined, Str(<<>>), Str(<<116, 114, 117, 101>>),
     Str(<<84, 114, 85, 101>>), Str(<<102, 97, 108, 115, 101>>),
     Str(<<116, 114, 117, 101, 32>>)}

\* Beginnings of API keys: "lsv2_pt_", "ls__", "LS__", "sk_".
KeyPrefixes ==
    {<<108, 115, 118, 50, 95, 112, 116, 95>>, <<108, 115, 95, 95>>,
     <<76, 83, 95, 95>>, <<115, 107, 95>>}

\* The key of n code units that begins with p and goes on with the digits
\* 1, 2, ..., 9, 0, 1, ...
KeyOf(p, n) == p \o [k \in 1 .. n - Len(p) |-> 48 + (k % 10)]

\* Values of LANGCHAIN_API_KEY: unset, "", each beginning alone, each
\* beginning filled to every length from 14 to MaxKeyLen, and keys whose
\* code units after the 15th are dots: three dots, or five.
KeyValues ==
    {Undefined, Str(<<>>)}
        \cup {Str(p) : p \in KeyPrefixes}
        \cup {Str(KeyOf(p, n)) : p \in KeyPrefixes, n \in MaskLen - 1 .. MaxKeyLen}
        \cup {Str(KeyOf(p, MaskLen) \o Repeat(46, n)) :
                 p \in {<<108, 115, 95, 95>>, <<115, 107, 95>>}, n \in {3, 5}}

\* Values of LANGCHAIN_PROJECT: unset, "", "p".
ProjectValues == {Undefined, Str(<<>>), Str(<<112>>)}

\* Values of LANGCHAIN_ENDPOINT: unset, "", "h".
EndpointValues == {Undefined, Str(<<>>), Str(<<104>>)}

\* The environments checkEnvVars is run in.
ScriptEnvs ==
    {[v \in ScriptVarNames |->
         CASE v = TRACING -> t [] v = API_KEY -> a
           [] v = PROJECT -> p [] v = ENDPOINT -> e] :
        t \in TracingValues, a \in KeyValues,
        p \in ProjectValues, e \in EndpointValues}

\* A call of checkEnvVars() in any environment of the sample.
InitCheck ==
    /\ InitRunner
    /\ InitDirect
    /\ InitImported
    /\ scriptEnv \in ScriptEnvs
    /\ argv = {}
    /\ installed = {}
    /\ scriptPc = <<"checkEnvVars">>
    /\ allGood = TRUE
    /\ issues = <<>>
    /\ printed = <<>>
    /\ calls = <<>>
    /\ files = {}
    /\ status = -1
    /\ earlier = NoEarlier

NextCheck == CheckStep

SpecCheck == InitCheck /\ [][NextCheck]_vars

\* checkEnvVars() is called a second time, in a process started with the
\* same required variables and another setting of LANGCHAIN_ENDPOINT.
CheckAgain ==
    /\ scriptPc = <<"returned">>
    /\ ~earlier.made
    /\ earlier' = [made |-> TRUE, env |-> scriptEnv,
                   allGood |-> allGood, issues |-> issues]
    /\ \E e \in EndpointValues \ {scriptEnv[ENDPOINT]} :
           scriptEnv' = [scriptEnv EXCEPT ![ENDPOINT] = e]
    /\ scriptPc' = <<"checkEnvVars">>
    /\ printed' = <<>>
    /\ UNCHANGED <<argv, installed, allGood, issues, calls, files, status>>
    /\ UNCHANGED <<runnerVars, directVars, mainVars>>

NextCheckTwice ==
    \/ CheckStep
    \/ CheckAgain

SpecCheckTwice == InitCheck /\ [][NextCheckTwice]_vars

-----------------------------------------------------------------------------
(* The LangSmith verification script: main *)

\* The flag that asks for the template, and another flag.
CreateTemplateFlag == "--create-template"

Flags == {CreateTemplateFlag, "--verbose"}

\* The packages the script requires.
Packages == {"dotenv", "langsmith", "@langchain/core", "@langchain/langgraph"}

\* The name of the file createEnvTemplate writes.
EnvPath == ".env.template"

\* A call made by main, with the value it returned (TRUE where the
\* function returns nothing).
Call(fn, ok) == [fn |-> fn, ok |-> ok]

\* The environments the script is started in and the ones a .env file
\* leads to: tracing unset, "true" or "false"; the key unset, a key of 20
\* code units that starts with "ls__", or one of 14 that starts with "sk_";
\* the project unset or "p".
MainEnvs ==
    {[v \in ScriptVarNames |->
         CASE v = TRACING -> t [] v = API_KEY -> a
           [] v = PROJECT -> p [] v = ENDPOINT -> Undefined] :
        t \in {Undefined, Str(<<116, 114, 117, 101>>),
               Str(<<102, 97, 108, 115, 101>>)},
        a \in {Undefined, Str(KeyOf(<<108, 115, 95, 95>>, MinKeyLen)),
               Str(KeyOf(<<115, 107, 95>>, MaskLen - 1))},
        p \in ProjectValues \ {Str(<<>>)}}

\* The script is started: any environment of the sample, any flags, any
\* of the packages installed.
InitScript ==
    /\ InitRunner
    /\ InitDirect
    /\ InitImported
    /\ scriptEnv \in MainEnvs
    /\ argv \in SUBSET Flags
    /\ installed \in SUBSET Packages
    /\ scriptPc = <<"main">>
    /\ allGood = TRUE
    /\ issues = <<>>
    /\ printed = <<>>
    /\ calls = <<>>
    /\ files = {}
    /\ status = -1
    /\ earlier = NoEarlier

\* main(): require('dotenv/config') in a try.  When dotenv is installed
\* it gives the variables that are not in the environment the values of
\* the .env file, if any; when it is not, main prints a note and goes on.
ScriptMain ==
    /\ scriptPc = <<"main">>
    /\ IF "dotenv" \in installed
       THEN scriptEnv' \in
                {e \in MainEnvs :
                    \A v \in ScriptVarNames :
                        scriptEnv[v].t = "string" => e[v] = scriptEnv[v]}
       ELSE scriptEnv' = scriptEnv
    /\ calls' = Append(calls, Call("main", TRUE))
    /\ scriptPc' = <<"argv">>
    /\ UNCHANGED <<argv, installed, allGood, issues, printed, files, status,
                   earlier>>
    /\ UNCHANGED <<runnerVars, directVars, mainVars>>

\* process.argv.includes("--create-template"): createEnvTemplate() is
\* called, or else checkEnvVars().
ParseArgs ==
    /\ scriptPc = <<"argv">>
    /\ IF CreateTemplateFlag \in argv
       THEN /\ calls' = Append(calls, Call("createEnvTemplate", TRUE))
            /\ scriptPc' = <<"createEnvTemplate">>
       ELSE /\ calls' = Append(calls, Call("checkEnvVars", TRUE))
            /\ scriptPc' = <<"checkEnvVars">>
    /\ UNCHANGED <<scriptEnv, argv, installed, allGood, issues, printed, files,
                   status, earlier>>
    /\ UNCHANGED <<runnerVars, directVars, mainVars>>

\* A main that goes on to the checks after the template is written.
AfterTemplateGoesOn == <<"checkEnvVars">>

\* createEnvTemplate(); return;
AfterTemplate == <<"done">>

\* createEnvTemplate: fs.writeFileSync(".env.template", template).
CreateEnvTemplate ==
    /\ scriptPc = <<"createEnvTemplate">>
    /\ files' = files \cup {EnvPath}
    /\ scriptPc' = AfterTemplate
    /\ UNCHANGED <<scriptEnv, argv, installed, allGood, issues, printed, calls,
                   status, earlier>>
    /\ UNCHANGED <<runnerVars, directVars, mainVars>>

\* testLangSmithImport(): true when require("langsmith") does not throw;
\* main drops the value.
TestLangSmithImport ==
    /\ scriptPc = <<"testLangSmithImport">>
    /\ calls' = Append(calls, Call("testLangSmithImport",
                                   "langsmith" \in installed))
    /\ scriptPc' = <<"testLangChainImport">>
    /\ UNCHANGED <<scriptEnv, argv, installed, allGood, issues, printed, files,
                   status, earlier>>
    /\ UNCHANGED <<runnerVars, directVars, mainVars>>

\* testLangChainImport(): true when both packages are found; main drops
\* the value.
TestLangChainImport ==
    /\ scriptPc = <<"testLangChainImport">>
    /\ calls' = Append(calls, Call("testLangChainImport",
                                   /\ "@langchain/core" \in installed
                                   /\ "@langchain/langgraph" \in installed))
    /\ scriptPc' = <<"printNextSteps">>
    /\ UNCHANGED <<scriptEnv, argv, installed, allGood, issues, printed, files,
                   status, earlier>>
    /\ UNCHANGED <<runnerVars, directVars, mainVars>>

\* printNextSteps(allGood, issues): the summary.
PrintNextSteps ==
    /\ scriptPc = <<"printNextSteps">>
    /\ calls' = Append(calls, Call("printNextSteps", TRUE))
    /\ scriptPc' = <<"exit">>
    /\ UNCHANGED <<scriptEnv, argv, installed, allGood, issues, printed, files,
                   status, earlier>>
    /\ UNCHANGED <<runnerVars, directVars, mainVars>>

\* An exit status that also asks for the packages to be found.
ExitStatusWithImports(good) ==
    IF good /\ \A n \in DOMAIN calls : calls[n].ok THEN 0 ELSE 1

\* allGood ? 0 : 1.
ExitStatus(good) == IF good THEN 0 ELSE 1

\* process.exit(allGood ? 0 : 1).
ScriptExit ==
    /\ scriptPc = <<"exit">>
    /\ status' = ExitStatus(allGood)
    /\ scriptPc' = <<"exited">>
    /\ UNCHANGED <<scriptEnv, argv, installed, allGood, issues, printed, calls,
                   files, earlier>>
    /\ UNCHANGED <<runnerVars, directVars, mainVars>>

NextScript ==
    \/ ScriptMain
    \/ ParseArgs
    \/ CreateEnvTemplate
    \/ CheckStep
    \/ TestLangSmithImport
    \/ TestLangChainImport
    \/ PrintNextSteps
    \/ ScriptExit

SpecScript == InitScript /\ [][NextScript]_vars


-----------------------------------------------------------------------------
\* The record returned to the caller of invocation i.
Result(i) == heap[ResultAddr(i)]

\* The state of invocation i as its caller sees it: "initialized" from the
\* call of invoke until the record is returned, then "completed".
Phase(i) ==
    CASE pc[i] = "idle" -> "none"
      [] pc[i] \in {START, "greetingNode"} -> "initialized"
      [] pc[i] = END -> "completed"
      [] OTHER -> "error"

\* How many times greetingNode was reached by invocation i.
NodeRuns(i) ==
    Cardinality({k \in DOMAIN path[i] : path[i][k] = "greetingNode"})

\* The text "Hello, " + s + "! Welcome!", written out code unit by code unit.
Expected(s) ==
    <<72, 101, 108, 108, 111, 44, 32>> \o s
        \o <<33, 32, 87, 101, 108, 99, 111, 109, 101, 33>>

-----------------------------------------------------------------------------
(* Claims *)

\* C1: a direct call of greetingNode with a state whose name is the string
\* s returns a delta whose greeting is "Hello, " then s, code unit for code
\* unit, then "! Welcome!": 17 code units longer than s, nothing trimmed.
C1_GreetingExact ==
    (called /\ arg.name.t = "string") =>
        LET s == arg.name.s
            g == ret.greeting
        IN  /\ g.t = "string"
            /\ Len(g.s) = Len(s) + 17
            /\ SubSeq(g.s, 1, 7) = <<72, 101, 108, 108, 111, 44, 32>>
            /\ SubSeq(g.s, 8, 7 + Len(s)) = s
            /\ SubSeq(g.s, 8 + Len(s), Len(g.s))
                   = <<33, 32, 87, 101, 108, 99, 111, 109, 101, 33>>

\* A call has returned for the name " e-acute A" (leading space, non-ASCII).
C1_Witness ==
    /\ called
    /\ arg.name = Str(<<32, 233, 65>>)
    /\ ret.greeting = Str(<<72, 101, 108, 108, 111, 44, 32, 32, 233, 65,
                            33, 32, 87, 101, 108, 99, 111, 109, 101, 33>>)

\* C2: an invocation whose input has the name s ends with a record whose
\* name is s and whose greeting is "Hello, " + s + "! Welcome!".
C2_InvokeResult ==
    \A i \in Invs :
        (pc[i] = END /\ given[i].name.t = "string") =>
            Result(i) = [name |-> given[i].name,
                         greeting |-> Str(Expected(given[i].name.s))]

\* invoke({name: ""}) has returned {name: "", greeting: "Hello, ! Welcome!"}.
C2_Witness ==
    \E i \in Invs :
        /\ pc[i] = END
        /\ given[i] = [name |-> Str(<<>>), greeting |-> Undefined]
        /\ Result(i) =
             [name |-> Str(<<>>),
              greeting |-> Str(<<72, 101, 108, 108, 111, 44, 32,
                                 33, 32, 87, 101, 108, 99, 111, 109, 101, 33>>)]

\* C3: the delta a direct call of greetingNode returns has the field
\* greeting and no other field, whatever the state it was called with.
C3_DeltaOnlyGreeting == called => Keys(ret) = {"greeting"}

\* A call with a state that has both fields has returned only greeting.
C3_Witness ==
    /\ called
    /\ Keys(arg) = {"name", "greeting"}
    /\ Keys(ret) = {"greeting"}

\* C4: from the call of invoke on, the caller's record is what it was when
\* invoke was called: same fields, same values.
C4_InputNotMutated ==
    \A i \in Invs : pc[i] # "idle" => heap[InputAddr(i)] = given[i]

\* An invocation given only a name has returned a greeting and the
\* caller's record still has only the name.
C4_Witness ==
    \E i \in Invs :
        /\ pc[i] = END
        /\ Keys(given[i]) = {"name"}
        /\ Keys(heap[InputAddr(i)]) = {"name"}
        /\ "greeting" \in Keys(Result(i))

\* C5: whatever the interleaving, the working state of every invocation
\* in flight carries the name of its own input, and the record invocation i
\* returns has the name of input i and the greeting of that name.
C5_NoCrossTalk ==
    \A i \in Invs :
        /\ pc[i] # "idle" => heap[stateRef[i]].name = given[i].name
        /\ (pc[i] = END /\ given[i].name.t = "string") =>
               /\ Result(i).name = heap[InputAddr(i)].name
               /\ Result(i).greeting = Str(Expected(heap[InputAddr(i)].name.s))

\* Two invocations with different names, both started before either has
\* returned: one has just run its node, the other has not yet.
C5_Witness ==
    \E i, j \in Invs :
        /\ i # j
        /\ pc[i] = "greetingNode" /\ pc[j] = START
        /\ given[i].name.t = "string" /\ given[j].name.t = "string"
        /\ given[i].name # given[j].name
        /\ heap[stateRef[i]].greeting = Str(Expected(given[i].name.s))

\* C6: two invocations whose inputs have the same name return equal
\* records, with the greeting of that name, whatever greeting the inputs
\* carried.
C6_InputGreetingIgnored ==
    \A i, j \in Invs :
        (/\ pc[i] = END /\ pc[j] = END
         /\ given[i].name.t = "string"
         /\ given[i].name = given[j].name) =>
            /\ Result(i) = Result(j)
            /\ Result(i).greeting = Str(Expected(given[i].name.s))

\* Two invocations with the same name have returned, one given a greeting
\* "A" and one given no greeting.
C6_Witness ==
    \E i, j \in Invs :
        /\ pc[i] = END /\ pc[j] = END
        /\ given[i].name.t = "string"
        /\ given[i].name = given[j].name
        /\ given[i].greeting = Str(<<65>>)
        /\ given[j].greeting = Undefined

\* C7: two invocations with equal inputs return equal records whatever
\* variables of EnvVars were set during each, and an invocation run with
\* none of them set returns the greeting of its name.
C7_EnvIndependent ==
    /\ \A i, j \in Invs :
           (pc[i] = END /\ pc[j] = END /\ given[i] = given[j]) =>
               Result(i) = Result(j)
    /\ \A i \in Invs :
           (pc[i] = END /\ envUnset[i] /\ given[i].name.t = "string") =>
               Result(i).greeting = Str(Expected(given[i].name.s))

\* Two invocations with the same input have returned, one run with no
\* variable set and one run with some variable set.
C7_Witness ==
    \E i, j \in Invs :
        /\ pc[i] = END /\ pc[j] = END
        /\ given[i] = given[j]
        /\ given[i].name.t = "string"
        /\ envUnset[i] /\ ~envUnset[j]

C9_MissingNameFails ==
    \A i \in Invs :
        (pc[i] # "idle" /\ "name" \notin Keys(given[i])) => pc[i] # END

\* C10: the nodes an invocation reaches are START, greetingNode, END, in
\* that order; one that has ended has reached all three, greetingNode once.
C10_SinglePath ==
    \A i \in Invs :
        /\ path[i] \in {<<>>, <<START>>, <<START, "greetingNode">>,
                        <<START, "greetingNode", END>>}
        /\ pc[i] = END =>
               /\ path[i] = <<START, "greetingNode", END>>
               /\ NodeRuns(i) = 1

\* An invocation has ended after START, greetingNode, END.
C10_Witness ==
    \E i \in Invs :
        /\ pc[i] = END
        /\ path[i] = <<START, "greetingNode", END>>
        /\ NodeRuns(i) = 1

\* C11: in a sequence of awaited invocations of one compiled graph, the
\* record each returns is the one its own input gives: the name of the
\* input and the greeting of that name (of "undefined" when the input has
\* no name), whatever was invoked before.
C11_NoMemory ==
    \A i \in Invs :
        pc[i] = END =>
            Result(i) =
                [name |-> given[i].name,
                 greeting |-> Str(Expected(
                     IF given[i].name.t = "string" THEN given[i].name.s
                     ELSE <<117, 110, 100, 101, 102, 105, 110, 101, 100>>))]

\* A second invocation, given no name, has returned after a first one
\* that was given "A e-acute": its record has no name.
C11_Witness ==
    /\ pc[1] = END /\ pc[2] = END
    /\ given[1].name = Str(<<65, 32, 233>>)
    /\ Keys(given[2]) = {}
    /\ Keys(Result(2)) = {"greeting"}

\* C12: a direct call of greetingNode can always be made, and with a state
\* whose name is a string (the empty one included) it does not throw and
\* returns a delta with a greeting.
C12_NodeTotal ==
    /\ ~called => ENABLED CallGreetingNode
    /\ (called /\ arg.name.t = "string") =>
           /\ ~threw
           /\ ret.greeting.t = "string"

\* A call with the empty name has returned a greeting without throwing.
C12_Witness ==
    /\ called
    /\ arg.name = Str(<<>>)
    /\ ~threw
    /\ ret.greeting.t = "string"

\* C13: a started invocation is initialized or completed and never in an
\* error state; its state changes only from initialized to completed, so
\* completed is terminal; and one started with a string name is eventually
\* completed.
C13_Lifecycle ==
    /\ [](\A i \in Invs : Phase(i) \in {"none", "initialized", "completed"})
    /\ [][\A i \in Invs :
            Phase(i)' # Phase(i) =>
                <<Phase(i), Phase(i)'>> \in {<<"none", "initialized">>,
                                            <<"initialized", "completed">>}]_vars
    /\ \A i \in Invs :
           (Phase(i) = "initialized" /\ given[i].name.t = "string")
               ~> (Phase(i) = "completed")

\* An invocation given the empty name is completed.
C13_Witness ==
    \E i \in Invs :
        /\ Phase(i) = "completed"
        /\ given[i].name = Str(<<>>)
        /\ pc[i] # "failed"

\* C14: a direct call of greetingNode leaves the record it was called with
\* as it was, name and greeting; the new greeting is in the returned delta.
C14_ArgUntouched ==
    [][/\ arg' = arg
       /\ called' => ret'.greeting = Str(Expected(
              IF arg.name.t = "string" THEN arg.name.s
              ELSE <<117, 110, 100, 101, 102, 105, 110, 101, 100>>))]_vars

\* A call with {name: "A", greeting: ""} has returned a greeting and the
\* record still has the greeting "".
C14_Witness ==
    /\ called
    /\ arg = [name |-> Str(<<65>>), greeting |-> Str(<<>>)]
    /\ ret.greeting.t = "string"
    /\ ret.greeting # arg.greeting

\* C15: two direct calls of greetingNode, one after the other, with states
\* of the same name return equal deltas, whatever greeting either state
\* carried.
C15_ReadsOnlyName ==
    (called /\ prior.made /\ ~threw /\ prior.arg.name = arg.name) =>
        ret = prior.ret

\* Two calls with the same name and different greetings in the state have
\* both returned, with the same delta.
C15_Witness ==
    /\ called
    /\ prior.made
    /\ prior.arg.name = arg.name
    /\ prior.arg.greeting = Str(<<65>>)
    /\ arg.greeting = Undefined
    /\ ret.greeting.t = "string"
    /\ ret = prior.ret

\* The seven lines of a complete run of main: the banner, the rule,
\* "Input: Alice", "Output: Hello, Alice! Welcome!", an empty line,
\* "Input: Bob", "Output: Hello, Bob! Welcome!".
C16_Lines ==
    <<<<76, 97, 110, 103, 71, 114, 97, 112, 104, 32, 71, 114, 101,
        101, 116, 105, 110, 103, 32, 65, 103, 101, 110, 116, 32, 40,
        78, 111, 32, 76, 76, 77, 41>>,
      <<61, 61, 61, 61, 61, 61, 61, 61, 61, 61, 61, 61, 61, 61, 61,
        61, 61, 61, 61, 61, 61, 61, 61, 61, 61, 61, 61, 61, 61, 61,
        61, 61, 61, 61, 61, 61, 61, 61, 61, 61>>,
      <<73, 110, 112, 117, 116, 58, 32, 65, 108, 105, 99, 101>>,
      <<79, 117, 116, 112, 117, 116, 58, 32, 72, 101, 108, 108, 111,
        44, 32, 65, 108, 105, 99, 101, 33, 32, 87, 101, 108, 99, 111,
        109, 101, 33>>,
      <<>>,
      <<73, 110, 112, 117, 116, 58, 32, 66, 111, 98>>,
      <<79, 117, 116, 112, 117, 116, 58, 32, 72, 101, 108, 108, 111,
        44, 32, 66, 111, 98, 33, 32, 87, 101, 108, 99, 111, 109, 101,
        33>>>>

\* C16: main makes two invocations and no other, "Alice" then "Bob"; the
\* second starts only when the first has returned and its Output line is
\* printed; what is printed is at every moment the beginning of the seven
\* lines, in order; the process ends with all seven printed and status 0.
C16_MainAliceThenBob ==
    /\ \A i \in Invs : i > 2 => pc[i] = "idle"
    /\ pc[1] # "idle" => given[1] = [name |-> Str(<<65, 108, 105, 99, 101>>),
                                      greeting |-> Undefined]
    /\ pc[2] # "idle" =>
           /\ given[2] = [name |-> Str(<<66, 111, 98>>), greeting |-> Undefined]
           /\ pc[1] = END
           /\ Len(stdout) >= 5
    /\ Len(stdout) <= 7
    /\ stdout = SubSeq(C16_Lines, 1, Len(stdout))
    /\ exitCode \in {-1, 0}
    /\ mainPc = <<"exited", 0>> => (Len(stdout) = 7 /\ exitCode = 0)

\* main has ended with status 0 after both invocations returned and the
\* seven lines were printed.
C16_Witness ==
    /\ mainPc = <<"exited", 0>>
    /\ exitCode = 0
    /\ pc[1] = END /\ pc[2] = END
    /\ stdout = C16_Lines

\* C17: the record an invocation returns has the fields of its input
\* together with the fields of the step's delta; a field of the delta has
\* the delta's value, replacing the value the working state held, and any
\* other field has the input's value.  With a name in the input the record
\* has name and greeting, both strings.
C17_UnionLastWriterWins ==
    \A i \in Invs :
        pc[i] = END =>
            LET delta == greetingNode(received[i])
            IN  /\ Keys(Result(i)) = Keys(given[i]) \cup Keys(delta)
                /\ \A f \in Keys(Result(i)) :
                       Result(i)[f] = IF f \in Keys(delta) THEN delta[f]
                                      ELSE given[i][f]
                /\ given[i].name.t = "string" =>
                       Keys(Result(i)) = {"name", "greeting"}

\* An invocation given {name: "", greeting: "A"} has returned the name ""
\* and a greeting that is no longer "A".
C17_Witness ==
    \E i \in Invs :
        /\ pc[i] = END
        /\ given[i] = [name |-> Str(<<>>), greeting |-> Str(<<65>>)]
        /\ received[i].greeting = Str(<<65>>)
        /\ Result(i).name = Str(<<>>)
        /\ Result(i).greeting # Str(<<65>>)

\* C18: from the call of invoke to the returned record, the name in the
\* working state is the name the caller supplied: at initialisation, in the
\* state handed to greetingNode, after the merge and in the result.
C18_NamePreserved ==
    \A i \in Invs :
        /\ pc[i] \in {START, "greetingNode", END} =>
               heap[stateRef[i]].name = given[i].name
        /\ pc[i] \in {"greetingNode", END} => received[i].name = given[i].name
        /\ pc[i] = END => Result(i).name = given[i].name

\* greetingNode has run for the name "A e-acute" and the working state,
\* now with a greeting, still has that name.
C18_Witness ==
    \E i \in Invs :
        /\ pc[i] = "greetingNode"
        /\ given[i].name = Str(<<65, 32, 233>>)
        /\ heap[stateRef[i]].name = Str(<<65, 32, 233>>)
        /\ heap[stateRef[i]].greeting.t = "string"

\* C19: the working state of an invocation is not at the address of any
\* caller's record, and the returned record is not the record passed in:
\* once the caller has assigned to both, the record passed in still has
\* the name it was given and the returned record still has the greeting
\* the step computed.
C19_NoAliasing ==
    \A i \in Invs :
        /\ pc[i] # "idle" => \A j \in Invs : stateRef[i] # InputAddr(j)
        /\ pc[i] = END =>
               /\ heap[InputAddr(i)].name = given[i].name
               /\ Result(i).greeting = greetingNode(received[i]).greeting

\* The caller of a returned invocation has assigned to the record it passed
\* in and to the record it got back, and each shows only its own change.
C19_Witness ==
    \E i \in Invs :
        /\ pc[i] = END
        /\ given[i].name = Str(<<65, 32, 233>>)
        /\ heap[InputAddr(i)].greeting = Str(<<39>>)
        /\ heap[InputAddr(i)].name = Str(<<65, 32, 233>>)
        /\ Result(i).name = Str(<<39, 39>>)
        /\ Result(i).greeting # Str(<<39>>)

\* C20: when invoke({name: s}) has returned and the direct call
\* greetingNode({name: s, greeting: ""}) has returned, the greeting of the
\* record equals the greeting of the delta.
C20_RunnerAgreesWithStep ==
    \A i \in Invs :
        (/\ pc[i] = END
         /\ called
         /\ Keys(given[i]) = {"name"}
         /\ arg = [name |-> given[i].name, greeting |-> Str(<<>>)]) =>
            /\ ret.greeting.t = "string"
            /\ Result(i).greeting = ret.greeting

\* invoke({name: "A e-acute"}) and greetingNode({name: "A e-acute",
\* greeting: ""}) have both returned.
C20_Witness ==
    \E i \in Invs :
        /\ pc[i] = END
        /\ called
        /\ given[i] = [name |-> Str(<<65, 32, 233>>), greeting |-> Undefined]
        /\ arg = [name |-> Str(<<65, 32, 233>>), greeting |-> Str(<<>>)]
        /\ Result(i).greeting = ret.greeting

\* C21: when index.ts is not the entry point of the process, main is never
\* called: nothing is printed, whatever graphs the importing module
\* compiles and invokes, and the process is not ended by main.  main is
\* under way, and the banner or an Input or Output line is printed, only
\* in a process whose entry point is index.ts, where main compiles one
\* graph.  A step that compiles a graph prints nothing and starts or
\* advances no invocation.
C21_MainOnlyAtEntry ==
    /\ [](IF isEntry
           THEN graphs <= 1
           ELSE /\ stdout = <<>>
                /\ exitCode = -1
                /\ mainPc \in {<<"load", 0>>, <<"imported", 0>>})
    /\ [][graphs' # graphs =>
              /\ stdout' = stdout
              /\ pc' = pc
              /\ heap' = heap
              /\ path' = path]_vars

\* The tests' process: index.ts was imported, two graphs were compiled, an
\* invocation has returned its greeting, and nothing was printed.
C21_Witness ==
    /\ ~isEntry
    /\ mainPc = <<"imported", 0>>
    /\ graphs = 2
    /\ \E i \in Invs : pc[i] = END /\ Result(i).greeting.t = "string"
    /\ stdout = <<>>

\* C22: checkEnvVars returns allGood = true exactly when each of
\* LANGCHAIN_TRACING_V2, LANGCHAIN_API_KEY and LANGCHAIN_PROJECT is set to a
\* non-empty value, the tracing value is "true" in any mix of upper and
\* lower case, the key starts with "lsv2_pt_" or "ls__", and the key has
\* at least 20 code units.  A required variable that is unset or set to
\* the empty string is reported with "<name> is not set", and no other is.
C22_AllGoodExactly ==
    scriptPc = <<"returned">> =>
        LET t == scriptEnv["LANGCHAIN_TRACING_V2"]
            a == scriptEnv["LANGCHAIN_API_KEY"]
            p == scriptEnv["LANGCHAIN_PROJECT"]
            NonEmpty(v) == v.t = "string" /\ Len(v.s) > 0
            Reported(v) ==
                \E n \in DOMAIN issues : issues[n] = VarText(v) \o IsNotSet
        IN  /\ allGood <=>
                   /\ NonEmpty(t) /\ NonEmpty(a) /\ NonEmpty(p)
                   /\ Len(t.s) = 4
                   /\ t.s[1] \in {116, 84} /\ t.s[2] \in {114, 82}
                   /\ t.s[3] \in {117, 85} /\ t.s[4] \in {101, 69}
                   /\ \/ /\ Len(a.s) >= 8
                         /\ SubSeq(a.s, 1, 8) = <<108, 115, 118, 50, 95, 112, 116, 95>>
                      \/ /\ Len(a.s) >= 4
                         /\ SubSeq(a.s, 1, 4) = <<108, 115, 95, 95>>
                   /\ Len(a.s) >= 20
            /\ \A v \in {"LANGCHAIN_TRACING_V2", "LANGCHAIN_API_KEY",
                          "LANGCHAIN_PROJECT"} :
                   Reported(v) <=> ~NonEmpty(scriptEnv[v])

\* checkEnvVars has returned allGood = true for the tracing value "TrUe"
\* and a key of exactly 20 code units that starts with "ls__".
C22_Witness ==
    /\ scriptPc = <<"returned">>
    /\ allGood
    /\ scriptEnv["LANGCHAIN_TRACING_V2"] = Str(<<84, 114, 85, 101>>)
    /\ Len(scriptEnv["LANGCHAIN_API_KEY"].s) = 20
    /\ SubSeq(scriptEnv["LANGCHAIN_API_KEY"].s, 1, 4) = <<108, 115, 95, 95>>

\* C23, as stated: at every point of checkEnvVars, allGood is true exactly
\* when issues is empty.
C23_AllGoodIffNoIssues == allGood <=> (Len(issues) = 0)

\* C23, amended: allGood is true exactly when issues is empty at every
\* point of checkEnvVars other than the one between an issues.push and the
\* allGood = false that follows it, and so in the returned result; every
\* step leaves issues as it was or with entries added at its end, and
\* allGood, once false, stays false.
C23_AllGoodIffNoIssuesOutsidePush ==
    /\ [](scriptPc[1] # "set" => (allGood <=> (Len(issues) = 0)))
    /\ [][/\ Len(issues') >= Len(issues)
          /\ SubSeq(issues', 1, Len(issues)) = issues
          /\ allGood' => allGood]_vars

\* checkEnvVars has returned allGood = false with four issues: a wrong
\* tracing value, a key of the wrong format and too short, and no project.
C23_Witness ==
    /\ scriptPc = <<"returned">>
    /\ ~allGood
    /\ Len(issues) = 4
    /\ issues[2] = FormatIssue
    /\ issues[3] = ShortIssue

\* C24: without --create-template, main ends with process.exit(0) when
\* checkEnvVars returned allGood = true and with process.exit(1) when it
\* returned false, whatever testLangSmithImport and testLangChainImport
\* returned; process.exit is not called before that.
C24_ExitStatusIffAllGood ==
    "--create-template" \notin argv =>
        /\ scriptPc = <<"exited">> =>
               /\ status \in {0, 1}
               /\ status = 0 <=> allGood
               /\ \E n \in DOMAIN calls : calls[n].fn = "testLangSmithImport"
               /\ \E n \in DOMAIN calls : calls[n].fn = "testLangChainImport"
        /\ scriptPc # <<"exited">> => status = -1

\* The script has ended with status 0 although neither langsmith nor the
\* @langchain packages were found.
C24_Witness ==
    /\ scriptPc = <<"exited">>
    /\ status = 0
    /\ allGood
    /\ \E n \in DOMAIN calls :
           calls[n] = [fn |-> "testLangSmithImport", ok |-> FALSE]
    /\ \E n \in DOMAIN calls :
           calls[n] = [fn |-> "testLangChainImport", ok |-> FALSE]

C26_Texts == {printed[n] : n \in DOMAIN printed} \cup {issues[n] : n \in DOMAIN issues}

C27_EndpointIrrelevant ==
    (/\ scriptPc = <<"returned">>
     /\ earlier.made
     /\ \A v \in {"LANGCHAIN_TRACING_V2", "LANGCHAIN_API_KEY",
                   "LANGCHAIN_PROJECT"} : earlier.env[v] = scriptEnv[v]) =>
        /\ allGood = earlier.allGood
        /\ issues = earlier.issues

\* Two calls have returned, the first with LANGCHAIN_ENDPOINT unset and
\* the second with it set, both with the one issue of a missing project.
C27_Witness ==
    /\ scriptPc = <<"returned">>
    /\ earlier.made
    /\ earlier.env["LANGCHAIN_ENDPOINT"] = Undefined
    /\ scriptEnv["LANGCHAIN_ENDPOINT"] = Str(<<104>>)
    /\ Len(issues) = 1
    /\ earlier.issues = issues
    /\ ~allGood

=============================================================================
